---- MODULE Spec2Model ----
(***************************************************************************)
(* A model of src/src/pages/Users.tsx: the Users screen (live roster,      *)
(* client-side search, password-guarded delete) and the Profile screen     *)
(* (display-name update, password change).                                 *)
(*                                                                         *)
(* Strings that the code inspects character by character (email,           *)
(* displayName, searchQuery) are sequences of one-character strings.       *)
(* A Firestore document is [id, data]; data is a function whose domain is  *)
(* the set of fields the document actually has, so a missing field is a    *)
(* field outside the domain.                                               *)
(***************************************************************************)
EXTENDS Integers, Sequences, FiniteSets, TLC

\* ------------------------------------------------------------------ bounds
MaxDocs == 3
MaxCalls == 2
MaxMounts == 2
FilterMaxDocs == 1

\* ------------------------------------------------------------ React state
VARIABLES
    screen,              \* which page component is mounted: "Users" | "Profile"
    \* Users component
    users,               \* useState<UserData[]>([])
    loading,             \* useState(true)
    showPasswordPrompt,  \* useState(false)
    selectedUser,        \* useState<UserData | null>(null)
    searchQuery,         \* useState('')
    deletePending,       \* deleteUser(uid) promises not yet settled, in call order
    nDeleteCalls,        \* calls of deleteUser made so far
    mounted,             \* whether the page component is mounted
    nMounts,             \* mounts so far; the mounted Users instance is the nMounts-th
    channels,            \* active onSnapshot listeners, each named by its instance
    orphanPending,       \* number of deleteUser promises in flight whose instance is unmounted
    \* Profile component
    displayName,         \* useState(currentUser?.displayName || '')
    currentPassword,     \* useState('')
    newPassword,         \* useState('')
    confirmPassword,     \* useState('')
    profileLoading,      \* useState(false)
    profilePending,      \* updateUserProfile / updateUserPassword promises not yet settled
    nProfileCalls,       \* calls of updateUserProfile made so far
    nPasswordCalls,      \* calls of updateUserPassword made so far
    \* collaborators shared by both screens
    nSuccess,            \* showSuccessNotification calls so far
    nError,              \* showErrorNotification calls so far
    nResolved,           \* backend promises fulfilled so far
    nRejected,           \* backend promises rejected so far
    lastEvent,           \* history: the handler (and branch) that ran last
    lastSnapshot         \* history: the docs of the snapshot delivered last

usersVars == <<users, loading, showPasswordPrompt, selectedUser, searchQuery,
               deletePending, nDeleteCalls>>
profileVars == <<displayName, currentPassword, newPassword, confirmPassword,
                 profileLoading, profilePending, nProfileCalls, nPasswordCalls>>
channelVars == <<nSuccess, nError, nResolved, nRejected>>
lifeVars == <<mounted, nMounts, channels, orphanPending>>
vars == <<screen, usersVars, profileVars, channelVars, lifeVars, lastEvent,
          lastSnapshot>>

\* ------------------------------------------------------------ JS values
\* null, as held by selectedUser
Null == [null |-> TRUE]

\* String.prototype.toLowerCase, one character
ToLowerChar(c) ==
    CASE c = "A" -> "a"
      [] c = "B" -> "b"
      [] OTHER -> c

\* String.prototype.toLowerCase
toLowerCase(s) == [i \in 1..Len(s) |-> ToLowerChar(s[i])]

\* String.prototype.includes: t occurs in s as a contiguous substring
includes(s, t) ==
    \E i \in 0..(Len(s) - Len(t)) : SubSeq(s, i + 1, i + Len(t)) = t

\* s without its i-th element
RemoveAt(s, i) == SubSeq(s, 1, i - 1) \o SubSeq(s, i + 1, Len(s))

\* ------------------------------------------------- snapshots (Users screen)
\* The documents the 'users' collection may hold.  Firestore's orderBy
\* returns only documents that have the ordering field, so each has createdAt.
\* u3's data carries its own uid field and neither email nor displayName.
DocPool ==
    { [id |-> "u1", data |-> [email |-> <<"A", "b">>, displayName |-> <<"b">>,
                              createdAt |-> 3]],
      [id |-> "u2", data |-> [email |-> <<"a">>, createdAt |-> 2]],
      [id |-> "u3", data |-> [uid |-> "u1", createdAt |-> 1]] }

\* query(collection(db, 'users'), orderBy('createdAt', 'desc')): the result
\* sets the backend may push, each ordered by createdAt descending.
Snapshots ==
    { s \in UNION { [1..k -> DocPool] : k \in 0..MaxDocs } :
        \A i, j \in 1..Len(s) : i < j => s[i].data.createdAt > s[j].data.createdAt }

\* doc => ({ uid: doc.id, ...doc.data() }): the fields of data, spread last,
\* win over uid: doc.id.
MapDoc(doc) == doc.data @@ [uid |-> doc.id]

\* A mapping that builds the array back to front.
MapDocs_Reversed(docs) ==
    [i \in 1..Len(docs) |-> docs[Len(docs) + 1 - i].data
                               @@ [uid |-> docs[Len(docs) + 1 - i].id]]

\* snapshot.docs.map(...)
MapDocs(docs) == [i \in 1..Len(docs) |-> MapDoc(docs[i])]

\* The search terms typed in the main specification.
Queries == { <<>>, <<"B">> }

\* ------------------------------------------------------------ filteredUsers
\* user.email?.toLowerCase().includes(q.toLowerCase()): undefined (falsy)
\* when the field is missing, since ?. short-circuits the whole chain.
FieldIncludes(user, fld, q) ==
    /\ fld \in DOMAIN user
    /\ includes(toLowerCase(user[fld]), toLowerCase(q))

\* the predicate of users.filter(...)
Matches(user, q) ==
    \/ FieldIncludes(user, "email", q)
    \/ FieldIncludes(user, "displayName", q)

MatchesQuery(user) == Matches(user, searchQuery)

\* us.filter(...) with the search term q
filterUsers(us, q) == SelectSeq(us, LAMBDA user : Matches(user, q))

\* const filteredUsers = users.filter(...)
filteredUsers == filterUsers(users, searchQuery)

\* ------------------------------------------------------------------- Init
\* The inputs of the Profile screen
Names == { "", "n" }
Passwords == { "", "p" }
\* What is typed in the confirmation input: nothing, the new password, another
Confirmations == { "", "p", "q" }

\* The useState initial values of both components, no call made yet.
Init ==
    /\ screen \in { "Users", "Profile" }
    /\ users = <<>>
    /\ loading = TRUE
    /\ showPasswordPrompt = FALSE
    /\ selectedUser = Null
    /\ searchQuery = <<>>
    /\ deletePending = <<>>
    /\ nDeleteCalls = 0
    /\ mounted = TRUE
    /\ nMounts = 1
    /\ channels = (IF screen = "Users" THEN { 1 } ELSE {})
    /\ orphanPending = 0
    /\ displayName \in (IF screen = "Profile" THEN Names ELSE { "" })
    /\ currentPassword = ""
    /\ newPassword = ""
    /\ confirmPassword = ""
    /\ profileLoading = FALSE
    /\ profilePending = <<>>
    /\ nProfileCalls = 0
    /\ nPasswordCalls = 0
    /\ nSuccess = 0
    /\ nError = 0
    /\ nResolved = 0
    /\ nRejected = 0
    /\ lastEvent = "mount"
    /\ lastSnapshot = <<>>

\* showSuccessNotification(...)
showSuccessNotification ==
    /\ nSuccess' = nSuccess + 1
    /\ nError' = nError

\* showErrorNotification(...)
showErrorNotification ==
    /\ nError' = nError + 1
    /\ nSuccess' = nSuccess

\* A backend promise settles: fulfilled (ok) or rejected.
PromiseSettles(ok) ==
    /\ nResolved' = IF ok THEN nResolved + 1 ELSE nResolved
    /\ nRejected' = IF ok THEN nRejected ELSE nRejected + 1

\* ------------------------------------------------------------ Users screen
\* An onSnapshot callback that adds the pushed documents to the ones held.
OnSnapshotCallback_Appends(docs) ==
    /\ users' = users \o MapDocs(docs)
    /\ loading' = FALSE
    /\ UNCHANGED <<showPasswordPrompt, selectedUser, searchQuery, deletePending,
                   nDeleteCalls>>

\* An onSnapshot callback that drops a selected target the push no longer
\* holds.
OnSnapshotCallback_DropsStaleTarget(docs) ==
    /\ users' = MapDocs(docs)
    /\ loading' = FALSE
    /\ selectedUser' = IF \E i \in 1..Len(docs) : MapDoc(docs[i]) = selectedUser
                       THEN selectedUser ELSE Null
    /\ showPasswordPrompt' = (showPasswordPrompt /\ selectedUser' # Null)
    /\ UNCHANGED <<searchQuery, deletePending, nDeleteCalls>>

\* The onSnapshot callback: setUsers(usersData); setLoading(false).
OnSnapshotCallback(docs) ==
    /\ users' = MapDocs(docs)
    /\ loading' = FALSE
    /\ UNCHANGED <<showPasswordPrompt, selectedUser, searchQuery, deletePending,
                   nDeleteCalls>>

\* The subscription pushes a snapshot to an active listener.  The listener
\* of the mounted instance runs the callback on its state; for a listener
\* whose instance is unmounted the callback's setState calls change nothing.
OnSnapshot ==
    /\ screen = "Users"
    /\ \E c \in channels : \E docs \in Snapshots :
         IF mounted /\ c = nMounts
         THEN /\ OnSnapshotCallback(docs)
              /\ lastSnapshot' = docs
              /\ lastEvent' = "onSnapshot"
         ELSE /\ UNCHANGED <<usersVars, lastSnapshot>>
              /\ lastEvent' = "onSnapshot after unmount"
    /\ UNCHANGED <<lifeVars, screen, profileVars, channelVars>>

\* An onChange that also stores the filtered array back into users.
SetSearchQuery_FiltersInPlace(q) ==
    /\ searchQuery' = q
    /\ users' = filterUsers(users, q)
    /\ UNCHANGED <<loading, showPasswordPrompt, selectedUser, deletePending,
                   nDeleteCalls>>

\* onChange of the search input: setSearchQuery(e.target.value)
SetSearchQuery(q) ==
    /\ searchQuery' = q
    /\ UNCHANGED <<users, loading, showPasswordPrompt, selectedUser,
                   deletePending, nDeleteCalls>>

TypeSearch ==
    /\ screen = "Users"
    /\ mounted
    /\ \E q \in Queries : SetSearchQuery(q)
    /\ lastEvent' = "setSearchQuery"
    /\ UNCHANGED <<lifeVars, screen, profileVars, channelVars, lastSnapshot>>

\* handleDeleteClick that records the target and does not open the prompt.
handleDeleteClick_NoPrompt(user) ==
    /\ selectedUser' = user
    /\ UNCHANGED <<users, loading, searchQuery, showPasswordPrompt, deletePending,
                   nDeleteCalls>>

\* handleDeleteClick(user)
handleDeleteClick(user) ==
    /\ selectedUser' = user
    /\ showPasswordPrompt' = TRUE
    /\ UNCHANGED <<users, loading, searchQuery, deletePending, nDeleteCalls>>

\* A click on the trash button of a rendered row: rows are rendered for
\* filteredUsers, and only when loading is false.
ClickDelete ==
    /\ screen = "Users"
    /\ mounted
    /\ ~loading
    /\ \E i \in 1..Len(filteredUsers) : handleDeleteClick(filteredUsers[i])
    /\ lastEvent' = "handleDeleteClick"
    /\ UNCHANGED <<lifeVars, screen, profileVars, channelVars, lastSnapshot>>

\* handleDelete without the test of isAuthenticated.
handleDelete_IgnoresAuth(isAuthenticated) ==
    IF selectedUser = Null
    THEN /\ showPasswordPrompt' = FALSE
         /\ selectedUser' = Null
         /\ UNCHANGED <<users, loading, searchQuery, deletePending, nDeleteCalls>>
    ELSE /\ deletePending' = Append(deletePending, selectedUser.uid)
         /\ nDeleteCalls' = nDeleteCalls + 1
         /\ UNCHANGED <<users, loading, searchQuery, showPasswordPrompt,
                        selectedUser>>

\* handleDelete that deletes the first row of the roster instead of the
\* captured target.
handleDelete_FirstRow(isAuthenticated) ==
    IF ~isAuthenticated \/ selectedUser = Null
    THEN /\ showPasswordPrompt' = FALSE
         /\ selectedUser' = Null
         /\ UNCHANGED <<users, loading, searchQuery, deletePending, nDeleteCalls>>
    ELSE /\ deletePending' = Append(deletePending,
                                    IF users # <<>> THEN users[1].uid
                                                    ELSE selectedUser.uid)
         /\ nDeleteCalls' = nDeleteCalls + 1
         /\ UNCHANGED <<users, loading, searchQuery, showPasswordPrompt,
                        selectedUser>>

\* handleDelete(isAuthenticated), up to its await: the early return, or the
\* call deleteUser(selectedUser.uid).
handleDelete(isAuthenticated) ==
    IF ~isAuthenticated \/ selectedUser = Null
    THEN /\ showPasswordPrompt' = FALSE
         /\ selectedUser' = Null
         /\ UNCHANGED <<users, loading, searchQuery, deletePending, nDeleteCalls>>
    ELSE /\ deletePending' = Append(deletePending, selectedUser.uid)
         /\ nDeleteCalls' = nDeleteCalls + 1
         /\ UNCHANGED <<users, loading, searchQuery, showPasswordPrompt,
                        selectedUser>>

\* The password prompt, mounted while showPasswordPrompt, reports a successful
\* re-authentication: onSuccess={() => handleDelete(true)}.
PromptConfirm ==
    /\ screen = "Users"
    /\ mounted
    /\ showPasswordPrompt
    /\ selectedUser # Null => nDeleteCalls < MaxCalls
    /\ handleDelete(TRUE)
    /\ lastEvent' = "handleDelete(true)"
    /\ UNCHANGED <<lifeVars, screen, profileVars, channelVars, lastSnapshot>>

\* handleDelete called as a function, with either value of its parameter,
\* while the prompt is shown.
CallHandleDelete ==
    /\ screen = "Users"
    /\ mounted
    /\ showPasswordPrompt
    /\ \E isAuthenticated \in BOOLEAN :
         /\ (isAuthenticated /\ selectedUser # Null) => nDeleteCalls < MaxCalls
         /\ handleDelete(isAuthenticated)
         /\ lastEvent' = IF isAuthenticated THEN "handleDelete(true)"
                                           ELSE "handleDelete(false)"
    /\ UNCHANGED <<lifeVars, screen, profileVars, channelVars, lastSnapshot>>

\* An onClose that hides the prompt and keeps the target.
PromptOnClose_KeepsTarget ==
    /\ showPasswordPrompt' = FALSE
    /\ UNCHANGED <<users, loading, searchQuery, selectedUser, deletePending,
                   nDeleteCalls>>

\* The prompt's onClose: setShowPasswordPrompt(false); setSelectedUser(null).
PromptOnClose ==
    /\ showPasswordPrompt' = FALSE
    /\ selectedUser' = Null
    /\ UNCHANGED <<users, loading, searchQuery, deletePending, nDeleteCalls>>

PromptCancel ==
    /\ screen = "Users"
    /\ mounted
    /\ showPasswordPrompt
    /\ PromptOnClose
    /\ lastEvent' = "onClose"
    /\ UNCHANGED <<lifeVars, screen, profileVars, channelVars, lastSnapshot>>

\* handleDelete whose catch block shows nothing.
handleDeleteSettled_SilentCatch(i, ok) ==
    /\ deletePending' = RemoveAt(deletePending, i)
    /\ PromiseSettles(ok)
    /\ IF ok THEN showSuccessNotification ELSE UNCHANGED <<nSuccess, nError>>
    /\ showPasswordPrompt' = FALSE
    /\ selectedUser' = Null
    /\ UNCHANGED <<users, loading, searchQuery, nDeleteCalls>>

\* handleDelete that clears the prompt and the target in the try block only,
\* with no finally.
handleDeleteSettled_NoFinally(i, ok) ==
    /\ deletePending' = RemoveAt(deletePending, i)
    /\ PromiseSettles(ok)
    /\ IF ok
       THEN /\ showSuccessNotification
            /\ showPasswordPrompt' = FALSE
            /\ selectedUser' = Null
       ELSE /\ showErrorNotification
            /\ UNCHANGED <<showPasswordPrompt, selectedUser>>
    /\ UNCHANGED <<users, loading, searchQuery, nDeleteCalls>>

\* handleDelete that also removes the deleted user from users on success.
handleDeleteSettled_OptimisticRemoval(i, ok) ==
    /\ deletePending' = RemoveAt(deletePending, i)
    /\ PromiseSettles(ok)
    /\ IF ok THEN showSuccessNotification ELSE showErrorNotification
    /\ showPasswordPrompt' = FALSE
    /\ selectedUser' = Null
    /\ users' = IF ok
                THEN SelectSeq(users, LAMBDA u : u.uid # deletePending[i])
                ELSE users
    /\ UNCHANGED <<loading, searchQuery, nDeleteCalls>>

\* handleDelete after its await: the i-th pending deleteUser call settles;
\* try/catch emits the notification, finally clears the prompt and the target.
handleDeleteSettled(i, ok) ==
    /\ deletePending' = RemoveAt(deletePending, i)
    /\ PromiseSettles(ok)
    /\ IF ok THEN showSuccessNotification ELSE showErrorNotification
    /\ showPasswordPrompt' = FALSE
    /\ selectedUser' = Null
    /\ UNCHANGED <<users, loading, searchQuery, nDeleteCalls>>

DeleteSettles ==
    /\ screen = "Users"
    /\ mounted
    /\ \E i \in 1..Len(deletePending) : \E ok \in BOOLEAN :
         /\ handleDeleteSettled(i, ok)
         /\ lastEvent' = IF ok THEN "deleteUser resolved" ELSE "deleteUser rejected"
    /\ UNCHANGED <<lifeVars, screen, profileVars, lastSnapshot>>

\* ------------------------------------------------- lifecycle of the screens
\* The effect body: onSnapshot(q, callback) opens the listener of the
\* instance being mounted.
useEffectSubscribe == channels' = channels \cup { nMounts + 1 }

\* The cancel handle that onSnapshot returns for listener c: calling it
\* releases the channel, and it is safe to call again on a closed listener.
unsubscribe(c) == channels' = channels \ { c }

\* A cleanup that forgets to call unsubscribe.
useEffectCleanup_Leaks(c) == channels' = channels

\* A cleanup that reads the handle from a variable shared by all instances
\* (let unsubscribe at module level), so that it cancels the listener
\* subscribed last.
useEffectCleanup_SharedHandle(c) == unsubscribe(nMounts)

\* The cleanup that the effect of instance c returns, () => unsubscribe():
\* it calls the handle its own effect received (const unsubscribe, line 29).
useEffectCleanup(c) == unsubscribe(c)

\* The route is left (navigate(-1) of either page's back button): the Users
\* effect's cleanup runs and the component's state is discarded (the state
\* variables hold '' , [], null or false while no instance is mounted).  Backend
\* calls in flight stay in flight.
Unmount ==
    /\ mounted
    /\ mounted' = FALSE
    /\ IF screen = "Users" THEN useEffectCleanup(nMounts) ELSE channels' = channels
    /\ orphanPending' = orphanPending + Len(deletePending) + Len(profilePending)
    /\ deletePending' = <<>>
    /\ users' = <<>>
    /\ loading' = TRUE
    /\ showPasswordPrompt' = FALSE
    /\ selectedUser' = Null
    /\ searchQuery' = <<>>
    /\ displayName' = ""
    /\ currentPassword' = ""
    /\ newPassword' = ""
    /\ confirmPassword' = ""
    /\ profileLoading' = FALSE
    /\ profilePending' = <<>>
    /\ lastSnapshot' = <<>>
    /\ lastEvent' = "unmount"
    /\ UNCHANGED <<screen, nMounts, nDeleteCalls, nProfileCalls, nPasswordCalls,
                   channelVars>>

\* The route is entered again: a new instance with the useState initial
\* values.  The Users effect subscribes; Profile starts from
\* currentUser?.displayName || ''.
Mount ==
    /\ ~mounted
    /\ nMounts < MaxMounts
    /\ mounted' = TRUE
    /\ nMounts' = nMounts + 1
    /\ IF screen = "Users"
       THEN useEffectSubscribe /\ displayName' = displayName
       ELSE channels' = channels /\ displayName' \in Names
    /\ lastEvent' = "mount"
    /\ UNCHANGED <<screen, usersVars, orphanPending, currentPassword, newPassword,
                   confirmPassword, profileLoading, profilePending, nProfileCalls,
                   nPasswordCalls, channelVars, lastSnapshot>>

\* The listener fails (transport, permission): Firestore closes it.  onSnapshot
\* is given no error callback, so no state changes.
SubscriptionError ==
    /\ screen = "Users"
    /\ \E c \in channels : channels' = channels \ { c }
    /\ lastEvent' = "subscription error"
    /\ UNCHANGED <<screen, usersVars, mounted, nMounts, orphanPending, profileVars,
                   channelVars, lastSnapshot>>

\* handleDelete after its await, in an instance that has been unmounted: the
\* notification is shown, the setState calls of finally change nothing.
handleDeleteSettledUnmounted(ok) ==
    /\ orphanPending > 0
    /\ orphanPending' = orphanPending - 1
    /\ PromiseSettles(ok)
    /\ IF ok THEN showSuccessNotification ELSE showErrorNotification
    /\ UNCHANGED usersVars

\* handleUpdateProfile or handleUpdatePassword after its await, in an instance
\* that has been unmounted: the notification is shown, the setState calls
\* change nothing.
handleUpdateSettledUnmounted(ok) ==
    /\ orphanPending > 0
    /\ orphanPending' = orphanPending - 1
    /\ PromiseSettles(ok)
    /\ IF ok THEN showSuccessNotification ELSE showErrorNotification
    /\ UNCHANGED profileVars

OrphanSettles ==
    /\ \E ok \in BOOLEAN :
         IF screen = "Users"
         THEN /\ handleDeleteSettledUnmounted(ok)
              /\ lastEvent' = IF ok THEN "deleteUser resolved after unmount"
                                    ELSE "deleteUser rejected after unmount"
              /\ UNCHANGED profileVars
         ELSE /\ handleUpdateSettledUnmounted(ok)
              /\ lastEvent' = IF ok THEN "update resolved after unmount"
                                    ELSE "update rejected after unmount"
              /\ UNCHANGED usersVars
    /\ UNCHANGED <<screen, mounted, nMounts, channels, lastSnapshot>>

\* ---------------------------------------------------------- Profile screen
\* onChange of the four inputs
SetDisplayName(v) ==
    /\ displayName' = v
    /\ UNCHANGED <<currentPassword, newPassword, confirmPassword, profileLoading,
                   profilePending, nProfileCalls, nPasswordCalls>>

SetCurrentPassword(v) ==
    /\ currentPassword' = v
    /\ UNCHANGED <<displayName, newPassword, confirmPassword, profileLoading,
                   profilePending, nProfileCalls, nPasswordCalls>>

SetNewPassword(v) ==
    /\ newPassword' = v
    /\ UNCHANGED <<displayName, currentPassword, confirmPassword, profileLoading,
                   profilePending, nProfileCalls, nPasswordCalls>>

SetConfirmPassword(v) ==
    /\ confirmPassword' = v
    /\ UNCHANGED <<displayName, currentPassword, newPassword, profileLoading,
                   profilePending, nProfileCalls, nPasswordCalls>>

TypeProfile ==
    /\ screen = "Profile"
    /\ mounted
    /\ \/ \E v \in Names : SetDisplayName(v)
       \/ \E v \in Passwords : SetCurrentPassword(v)
       \/ \E v \in Passwords : SetNewPassword(v)
       \/ \E v \in Confirmations : SetConfirmPassword(v)
    /\ lastEvent' = "input"
    /\ UNCHANGED <<lifeVars, screen, usersVars, channelVars, lastSnapshot>>

\* handleUpdateProfile, up to its await: setLoading(true);
\* updateUserProfile(displayName).
handleUpdateProfile ==
    /\ profileLoading' = TRUE
    /\ profilePending' = Append(profilePending,
                                [op |-> "updateUserProfile", args |-> <<displayName>>])
    /\ nProfileCalls' = nProfileCalls + 1
    /\ UNCHANGED <<displayName, currentPassword, newPassword, confirmPassword,
                   nPasswordCalls, nSuccess, nError>>

\* Submit of the first form; its button is disabled while loading.
SubmitProfileForm ==
    /\ screen = "Profile"
    /\ mounted
    /\ ~profileLoading
    /\ nProfileCalls + nPasswordCalls < MaxCalls
    /\ handleUpdateProfile
    /\ lastEvent' = "handleUpdateProfile"
    /\ UNCHANGED <<lifeVars, screen, usersVars, nResolved, nRejected, lastSnapshot>>

\* handleUpdatePassword without the local check of the confirmation.
handleUpdatePassword_NoLocalCheck ==
    /\ profileLoading' = TRUE
    /\ profilePending' = Append(profilePending,
                                [op |-> "updateUserPassword",
                                 args |-> <<currentPassword, newPassword>>])
    /\ nPasswordCalls' = nPasswordCalls + 1
    /\ UNCHANGED <<displayName, currentPassword, newPassword, confirmPassword,
                   nProfileCalls, nSuccess, nError>>

\* handleUpdatePassword, up to its await: the local check of the
\* confirmation, then setLoading(true); updateUserPassword(current, new).
handleUpdatePassword ==
    IF newPassword # confirmPassword
    THEN /\ showErrorNotification
         /\ UNCHANGED <<displayName, currentPassword, newPassword, confirmPassword,
                        profileLoading, profilePending, nProfileCalls,
                        nPasswordCalls>>
    ELSE /\ profileLoading' = TRUE
         /\ profilePending' = Append(profilePending,
                                     [op |-> "updateUserPassword",
                                      args |-> <<currentPassword, newPassword>>])
         /\ nPasswordCalls' = nPasswordCalls + 1
         /\ UNCHANGED <<displayName, currentPassword, newPassword, confirmPassword,
                        nProfileCalls, nSuccess, nError>>

\* Submit of the second form; its button is disabled while loading and its
\* three inputs are required.
SubmitPasswordForm ==
    /\ screen = "Profile"
    /\ mounted
    /\ ~profileLoading
    /\ currentPassword # "" /\ newPassword # "" /\ confirmPassword # ""
    /\ IF newPassword # confirmPassword
       THEN nError < MaxCalls
       ELSE nProfileCalls + nPasswordCalls < MaxCalls
    /\ handleUpdatePassword
    /\ lastEvent' = "handleUpdatePassword"
    /\ UNCHANGED <<lifeVars, screen, usersVars, nResolved, nRejected, lastSnapshot>>

\* handleUpdateProfile after its await.
handleUpdateProfileSettled(i, ok) ==
    /\ profilePending' = RemoveAt(profilePending, i)
    /\ PromiseSettles(ok)
    /\ IF ok THEN showSuccessNotification ELSE showErrorNotification
    /\ profileLoading' = FALSE
    /\ UNCHANGED <<displayName, currentPassword, newPassword, confirmPassword,
                   nProfileCalls, nPasswordCalls>>

\* handleUpdatePassword that calls setLoading(false) in the try block only.
handleUpdatePasswordSettled_NoFinally(i, ok) ==
    /\ profilePending' = RemoveAt(profilePending, i)
    /\ PromiseSettles(ok)
    /\ IF ok
       THEN /\ showSuccessNotification
            /\ currentPassword' = ""
            /\ newPassword' = ""
            /\ confirmPassword' = ""
            /\ profileLoading' = FALSE
       ELSE /\ showErrorNotification
            /\ UNCHANGED <<currentPassword, newPassword, confirmPassword,
                           profileLoading>>
    /\ UNCHANGED <<displayName, nProfileCalls, nPasswordCalls>>

\* handleUpdatePassword after its await: on success the three password
\* fields are emptied.
handleUpdatePasswordSettled(i, ok) ==
    /\ profilePending' = RemoveAt(profilePending, i)
    /\ PromiseSettles(ok)
    /\ IF ok
       THEN /\ showSuccessNotification
            /\ currentPassword' = ""
            /\ newPassword' = ""
            /\ confirmPassword' = ""
       ELSE /\ showErrorNotification
            /\ UNCHANGED <<currentPassword, newPassword, confirmPassword>>
    /\ profileLoading' = FALSE
    /\ UNCHANGED <<displayName, nProfileCalls, nPasswordCalls>>

ProfileSettles ==
    /\ screen = "Profile"
    /\ \E i \in 1..Len(profilePending) : \E ok \in BOOLEAN :
         /\ IF profilePending[i].op = "updateUserProfile"
            THEN handleUpdateProfileSettled(i, ok)
            ELSE handleUpdatePasswordSettled(i, ok)
         /\ lastEvent' = IF ok THEN profilePending[i].op \o " resolved"
                               ELSE profilePending[i].op \o " rejected"
    /\ UNCHANGED <<lifeVars, screen, usersVars, lastSnapshot>>

\* ---------------------------------------------------------- specifications
Next ==
    \/ OnSnapshot
    \/ TypeSearch
    \/ ClickDelete
    \/ PromptConfirm
    \/ PromptCancel
    \/ DeleteSettles
    \/ Unmount
    \/ Mount
    \/ SubscriptionError
    \/ OrphanSettles
    \/ TypeProfile
    \/ SubmitProfileForm
    \/ SubmitPasswordForm
    \/ ProfileSettles

Spec == Init /\ [][Next]_vars

\* Every started backend call eventually settles.
LiveSpec ==
    Spec /\ WF_vars(DeleteSettles) /\ WF_vars(OrphanSettles) /\ WF_vars(ProfileSettles)

\* ------------------------------------------- the filter, on bounded inputs
\* The strings of the filter specification: both cases, substrings at either
\* end, the empty string.
Strings == { <<>>, <<"a">>, <<"A">>, <<"b">>, <<"A", "b">>, <<"b", "a">> }

\* doc.data() of a document created at c: email and displayName are each
\* present (any string) or missing.
FilterData(c) ==
    UNION { { f @@ [createdAt |-> c] : f \in [flds -> Strings] } :
            flds \in SUBSET { "email", "displayName" } }

\* The documents that may stand at place i of a snapshot of k documents.
FilterDocsAt(i, k) ==
    { [id |-> "u" \o ToString(i), data |-> d] : d \in FilterData(k + 1 - i) }

FilterSnapshots ==
    UNION { { s \in [1..k -> UNION { FilterDocsAt(i, k) : i \in 1..k }] :
                \A i \in 1..k : s[i] \in FilterDocsAt(i, k) } :
            k \in 0..FilterMaxDocs }

\* The Users screen as mounted.
FilterInit == Init /\ screen = "Users"

\* The first snapshot arrives, with any contents.
FilterFirstSnapshot ==
    /\ loading
    /\ nMounts \in channels
    /\ \E docs \in FilterSnapshots :
         /\ OnSnapshotCallback(docs)
         /\ lastSnapshot' = docs
    /\ lastEvent' = "onSnapshot"
    /\ UNCHANGED <<lifeVars, screen, profileVars, channelVars>>

\* Typing in the search input re-renders, which recomputes filteredUsers.
FilterType ==
    /\ \E q \in Strings : SetSearchQuery(q)
    /\ lastEvent' = "setSearchQuery"
    /\ UNCHANGED <<lifeVars, screen, profileVars, channelVars, lastSnapshot>>

FilterNext == FilterFirstSnapshot \/ FilterType

FilterSpec == FilterInit /\ [][FilterNext]_vars

\* -------------------------------------- handleDelete, on both arguments
\* The Users screen as mounted.
HandlerInit == Init /\ screen = "Users"

\* requestDelete, confirm, cancel and snapshot events, where confirm is
\* handleDelete applied to either value of isAuthenticated.
HandlerNext ==
    \/ OnSnapshot
    \/ ClickDelete
    \/ CallHandleDelete
    \/ PromptCancel
    \/ DeleteSettles

HandlerSpec == HandlerInit /\ [][HandlerNext]_vars

\* ------------------------------------------- the cleanup, called once more
\* The Users screen as mounted.
TeardownInit == Init /\ screen = "Users"

\* The cleanup of an instance is called again after it has run at that
\* instance's unmount.
CleanupAgain ==
    /\ screen = "Users"
    /\ \E c \in 1..nMounts :
         /\ c < nMounts \/ ~mounted
         /\ useEffectCleanup(c)
    /\ lastEvent' = "cleanup again"
    /\ UNCHANGED <<screen, usersVars, mounted, nMounts, orphanPending, profileVars,
                   channelVars, lastSnapshot>>

\* Mount, unmount and remount of the Users screen with snapshot pushes,
\* listener errors and typing in between.
TeardownNext ==
    \/ OnSnapshot
    \/ TypeSearch
    \/ SubscriptionError
    \/ Unmount
    \/ Mount
    \/ CleanupAgain

TeardownSpec == TeardownInit /\ [][TeardownNext]_vars

\* ------------------------------------------------------------------ claims
\* The states of the guarded mutation controller, read off the React state.
Committing == deletePending # <<>>
AwaitingConfirmation == showPasswordPrompt /\ deletePending = <<>>
Idle == ~showPasswordPrompt /\ selectedUser = Null

ControllerEvents ==
    { "handleDeleteClick", "handleDelete(true)", "handleDelete(false)", "onClose",
      "deleteUser resolved", "deleteUser rejected" }

SettleEvents ==
    { "deleteUser resolved", "deleteUser rejected",
      "updateUserProfile resolved", "updateUserProfile rejected",
      "updateUserPassword resolved", "updateUserPassword rejected" }

\* C1: a confirm with absent or invalid proof, handleDelete(false), makes no
\* call of deleteUser and leaves the controller Idle with no pending target;
\* deleteUser is only ever called by handleDelete(true).
C1_InvalidConfirmNeverDeletes ==
    [][ /\ lastEvent' = "handleDelete(false)" =>
             /\ nDeleteCalls' = nDeleteCalls
             /\ deletePending' = deletePending
             /\ selectedUser' = Null
             /\ showPasswordPrompt' = FALSE
             /\ UNCHANGED channelVars
        /\ nDeleteCalls' # nDeleteCalls => lastEvent' = "handleDelete(true)"
      ]_vars

\* handleDelete(false) has run while a target was selected in a loaded
\* roster, and no deleteUser call was ever made.
C1_Witness ==
    /\ lastEvent = "handleDelete(false)"
    /\ users # <<>>
    /\ selectedUser = Null
    /\ nDeleteCalls = 0

\* C2: at most one pending mutation: a requestDelete while a target is
\* pending never replaces that target, and a settling deleteUser call clears
\* only the target it was made for.
C2_SinglePendingMutation ==
    [][ /\ selectedUser # Null => selectedUser' \in { selectedUser, Null }
        /\ (lastEvent' \in SettleEvents /\ selectedUser # Null) =>
             \E i \in 1..Len(deletePending) :
                /\ deletePending[i] = selectedUser.uid
                /\ deletePending' = RemoveAt(deletePending, i)
      ]_vars

\* C3: a valid confirm starts a deleteUser call only from
\* AwaitingConfirmation: never while a call for the selected target is
\* already in flight.
C3_ConfirmOnlyFromAwaiting ==
    [][ (lastEvent' = "handleDelete(true)" /\ selectedUser # Null
             /\ \E i \in 1..Len(deletePending) : deletePending[i] = selectedUser.uid)
          => nDeleteCalls' = nDeleteCalls
      ]_vars

\* C4: on the Users screen every settled deleteUser call has produced exactly
\* one notification, a success for a fulfilled call and a failure for a
\* rejected one, and nothing else has produced any.
C4_OneNotificationPerCommit ==
    screen = "Users" =>
        /\ nSuccess = nResolved
        /\ nError = nRejected
        /\ nResolved + nRejected + Len(deletePending) + orphanPending
              = nDeleteCalls

\* A fulfilled and a rejected call have both settled, and the prompt was
\* then opened again and cancelled.
C4_Witness ==
    /\ lastEvent = "onClose"
    /\ nResolved = 1
    /\ nRejected = 1

\* C5: right after a backend call settles, fulfilled or rejected, the
\* controller is Idle: on Users no target is selected and the prompt is
\* closed, on Profile loading is false.
C5_SettledIsIdle ==
    lastEvent \in SettleEvents =>
        /\ screen = "Users" => (selectedUser = Null /\ showPasswordPrompt = FALSE)
        /\ screen = "Profile" => profileLoading = FALSE

\* A deleteUser call has just been rejected.
C5_Witness ==
    /\ lastEvent = "deleteUser rejected"
    /\ nRejected = 1
    /\ Idle

\* C6: if every started call settles, Committing leads to Idle on both
\* screens.
C6_CommittingLeadsToIdle ==
    /\ Committing ~> Idle
    /\ profileLoading ~> ~profileLoading

\* A snapshot arrives while a deleteUser call is in flight.
C6_Witness ==
    /\ Committing
    /\ showPasswordPrompt
    /\ lastEvent = "onSnapshot"

\* C7: a password change submitted with newPassword # confirmPassword makes
\* no call of updateUserPassword, emits exactly one failure notification and
\* leaves loading false.
C7_MismatchRejectedLocally ==
    [][ (lastEvent' = "handleUpdatePassword" /\ newPassword # confirmPassword) =>
          /\ nPasswordCalls' = nPasswordCalls
          /\ profilePending' = profilePending
          /\ nError' = nError + 1
          /\ nSuccess' = nSuccess
          /\ profileLoading = FALSE
          /\ profileLoading' = FALSE
      ]_vars

\* The form was submitted with two different non-empty passwords.
C7_Witness ==
    /\ lastEvent = "handleUpdatePassword"
    /\ newPassword # confirmPassword
    /\ nError = 1
    /\ nPasswordCalls = 0

\* C8: users is always exactly the mapped contents of the snapshot delivered
\* last (initially empty), whatever the controller is doing.
C8_UsersIsLastSnapshot == users = MapDocs(lastSnapshot)

\* A second, shorter snapshot has replaced the first while a delete was in
\* flight.
C8_Witness ==
    /\ lastEvent = "onSnapshot"
    /\ Committing
    /\ Len(users) = 1
    /\ \A i \in 1..Len(deletePending) : deletePending[i] # users[1].uid

\* C9: no controller action changes users; when deleteUser is rejected there
\* is one failure notification and the controller is Idle.
C9_ControllerKeepsUsers ==
    [][ /\ lastEvent' \in ControllerEvents => users' = users
        /\ lastEvent' = "deleteUser rejected" =>
             /\ nError' = nError + 1
             /\ nSuccess' = nSuccess
             /\ Idle'
      ]_vars

\* The only deleteUser call made was rejected, and the roster still lists
\* both users of the snapshot delivered last.
C9_Witness ==
    /\ lastEvent = "deleteUser rejected"
    /\ nDeleteCalls = 1
    /\ nError = 1
    /\ Len(lastSnapshot) = 2
    /\ Len(users) = 2

\* t occurs in s, compared without regard to case
ContainsIgnoringCase(s, t) ==
    \E off \in 0..(Len(s) - Len(t)) :
        \A k \in 1..Len(t) : ToLowerChar(s[off + k]) = ToLowerChar(t[k])

\* The record has an email or a displayName that contains the search term.
HasTerm(user) ==
    \/ "email" \in DOMAIN user /\ ContainsIgnoringCase(user.email, searchQuery)
    \/ "displayName" \in DOMAIN user
          /\ ContainsIgnoringCase(user.displayName, searchQuery)

\* C10: filteredUsers is exactly the records whose email or displayName
\* contains the term, and with the empty term it is all of users.
C10_FilterExact ==
    /\ filteredUsers = SelectSeq(users, HasTerm)
    /\ searchQuery = <<>> => filteredUsers = users

\* C11: over every sequence of mount, unmount and remount at most one
\* listener is active, and it is the one of the mounted instance: the listener
\* of an instance is closed before the next instance subscribes.
C11_AtMostOneSubscription ==
    /\ Cardinality(channels) <= 1
    /\ channels \subseteq { nMounts }
    /\ ~mounted => channels = {}

\* The screen was unmounted and mounted again, and the second instance has
\* received a snapshot.
C11_Witness ==
    /\ nMounts = 2
    /\ mounted
    /\ channels = { 2 }
    /\ lastEvent = "onSnapshot"

\* C12: once the listener of the mounted instance has failed, the screen
\* shows the empty state, not the loading spinner (and the listener stays
\* closed).
C12_ErrorShowsEmptyState ==
    (screen = "Users" /\ mounted /\ channels = {}) =>
        /\ loading = FALSE
        /\ users = <<>>

\* C13: cancel (onClose) makes no backend call and shows no notification, and
\* leaves the controller Idle with no pending target.
C13_CancelIsSilent ==
    [][ lastEvent' = "onClose" =>
          /\ nDeleteCalls' = nDeleteCalls
          /\ deletePending' = deletePending
          /\ UNCHANGED channelVars
          /\ showPasswordPrompt' = FALSE
          /\ selectedUser' = Null
      ]_vars

\* A target was requested and the prompt cancelled; no call was ever made.
C13_Witness ==
    /\ lastEvent = "onClose"
    /\ users # <<>>
    /\ nDeleteCalls = 0
    /\ Idle

\* C14: handleDeleteClick opens the prompt, captures a rendered row as the
\* target and calls nothing; snapshots and search terms leave the target as
\* captured; a valid confirm calls deleteUser with the uid of the target.
C14_ConfirmDeletesCapturedTarget ==
    [][ /\ lastEvent' = "handleDeleteClick" =>
             /\ \E i \in 1..Len(filteredUsers) : selectedUser' = filteredUsers[i]
             /\ showPasswordPrompt' = TRUE
             /\ nDeleteCalls' = nDeleteCalls
             /\ deletePending' = deletePending
        /\ lastEvent' \in { "onSnapshot", "setSearchQuery" } =>
             selectedUser' = selectedUser
        /\ (lastEvent' = "handleDelete(true)" /\ selectedUser # Null) =>
             /\ deletePending' = Append(deletePending, selectedUser.uid)
             /\ nDeleteCalls' = nDeleteCalls + 1
      ]_vars

\* deleteUser was called for the target after a snapshot that lists other
\* users only and a search term that is not the empty one.
C14_Witness ==
    /\ lastEvent = "handleDelete(true)"
    /\ selectedUser # Null
    /\ deletePending = <<selectedUser.uid>>
    /\ users # <<>>
    /\ \A i \in 1..Len(users) : users[i].uid # selectedUser.uid
    /\ searchQuery # <<>>

\* s is ordered by createdAt, descending
SortedByCreatedAtDesc(s) ==
    \A i, j \in 1..Len(s) : i < j => s[i].createdAt > s[j].createdAt

\* s keeps some of the elements of t, in the order of t
IsSubsequence(s, t) ==
    \E f \in [1..Len(s) -> 1..Len(t)] :
        /\ \A i \in 1..Len(s) : s[i] = t[f[i]]
        /\ \A i, j \in 1..Len(s) : i < j => f[i] < f[j]

\* C15: users is in the order of the snapshot, which the backend sorts by
\* createdAt descending, and filteredUsers keeps that order.
C15_ViewSortedByCreatedAtDesc ==
    /\ Len(users) = Len(lastSnapshot)
    /\ \A i \in 1..Len(users) : users[i].createdAt = lastSnapshot[i].data.createdAt
    /\ SortedByCreatedAtDesc(users)
    /\ SortedByCreatedAtDesc(filteredUsers)
    /\ IsSubsequence(filteredUsers, users)

\* The collection holds A (createdAt 3), B (createdAt 1) and C (createdAt 2);
\* the roster lists them as A, C, B.
C15_Witness ==
    /\ Len(users) = 3
    /\ users[1].createdAt = 3
    /\ users[2].createdAt = 2
    /\ users[3].createdAt = 1
    /\ filteredUsers # users
    /\ filteredUsers # <<>>

\* C16: filtering the filtered list again with the same term gives the same
\* list, and a change of the search term leaves users as it is.
C16_FilterPureAndIdempotent ==
    /\ [](filterUsers(filteredUsers, searchQuery) = filteredUsers)
    /\ [][lastEvent' = "setSearchQuery" => users' = users]_vars

\* A term was typed that keeps a record and is not the empty term.
C16_Witness ==
    /\ lastEvent = "setSearchQuery"
    /\ searchQuery # <<>>
    /\ users # <<>>
    /\ filteredUsers = users

\* C17: unmounting closes the listener of the instance and releases its
\* channel; calling the cleanup a second time changes nothing, whichever
\* instance is mounted by then; no snapshot is delivered to an unmounted
\* instance and while none is mounted the state does not change.
C17_TeardownReleasesChannel ==
    [][ /\ lastEvent' = "unmount" => channels' = {}
        /\ lastEvent' = "cleanup again" =>
              UNCHANGED <<channels, usersVars, mounted, nMounts, lastSnapshot>>
        /\ lastEvent' # "onSnapshot after unmount"
        /\ (~mounted /\ ~mounted') => UNCHANGED <<usersVars, lastSnapshot>>
      ]_vars

\* The first instance was unmounted, the second has received a snapshot, and
\* the cleanup of the first was then called again: the second instance's
\* listener is still open.
C17_Witness ==
    /\ lastEvent = "cleanup again"
    /\ mounted
    /\ nMounts = 2
    /\ channels = { 2 }
    /\ users # <<>>

\* C18: the prompt is shown exactly when a target is selected.
C18_PromptIffSelected == showPasswordPrompt <=> (selectedUser # Null)

\* A deleteUser call is in flight with the prompt still open on its target.
C18_Witness ==
    /\ showPasswordPrompt
    /\ selectedUser # Null
    /\ Committing

\* C19: a snapshot changes only users and loading; a valid confirm for a
\* target that the roster no longer lists still calls deleteUser with its uid.
C19_SnapshotKeepsController ==
    [][ /\ lastEvent' = "onSnapshot" =>
             UNCHANGED <<selectedUser, showPasswordPrompt, searchQuery,
                         deletePending, nDeleteCalls, channelVars>>
        /\ (lastEvent' = "handleDelete(true)" /\ selectedUser # Null
              /\ \A i \in 1..Len(users) : users[i] # selectedUser) =>
             deletePending' = Append(deletePending, selectedUser.uid)
      ]_vars

\* A snapshot without the selected target has arrived while the prompt is
\* open.
C19_Witness ==
    /\ lastEvent = "onSnapshot"
    /\ showPasswordPrompt
    /\ selectedUser # Null
    /\ \A i \in 1..Len(users) : users[i] # selectedUser

\* C20: on the Profile screen at most one backend call (updateUserProfile or
\* updateUserPassword) is in flight at any time, and loading is true exactly
\* while a call is in flight.  The calls in flight are those of the mounted
\* instance and those started by an instance that has since been unmounted.
C20_OneProfileCallInFlight ==
    (screen = "Profile" /\ mounted) =>
        /\ Len(profilePending) + orphanPending <= 1
        /\ profileLoading <=> (Len(profilePending) + orphanPending > 0)

====
